---- MODULE Spec2Model ----
(***************************************************************************)
(* Model of dashboard.py: a script that loads two CSV tables (daily and    *)
(* hourly bike rentals), reads the sidebar widgets, filters the tables by  *)
(* a date range in the first section and computes the aggregates of the    *)
(* selected section.  The script has no loop: one execution serves one     *)
(* user interaction, and the host executes the script again, from its      *)
(* first line, for the next one.                                           *)
(*                                                                         *)
(* Dates in the files and in the date widgets are civil dates <<y, m, d>>; *)
(* a pandas Timestamp is modelled as the number of days since 1970-01-01;  *)
(* a monthly Period is the number of months since 1970-01.  A mean or a    *)
(* percentage is the exact fraction [num, den] (den = 0 is NaN).           *)
(* Rendering (lines 43-49, 56-68, 76-82, ...) is not modelled.             *)
(***************************************************************************)
EXTENDS Integers, Sequences, FiniteSets, TLC

VARIABLES
    days_file, hours_file,      \* contents of days_data.csv / hours_data.csv
    pc,                         \* position of the running script
    heap,                       \* DataFrame objects, by object id
    days_data, hours_data,      \* names of the script, bound to object ids
    filtered_days_data, filtered_hours_data,
    section, start_date, end_date, time_frame,   \* widget values of this run
    results,                    \* the other names the run has assigned
    raised,                     \* exception that ended the run, or "none"
    runs, loads                 \* executions of the script / of lines 14-19

vars == <<days_file, hours_file, pc, heap, days_data, hours_data,
          filtered_days_data, filtered_hours_data, section, start_date,
          end_date, time_frame, results, raised, runs, loads>>

----------------------------------------------------------------------------
(* Bounds of the model *)

MaxDayRows == 2
MaxHourRows == 2
MaxBinRows == 1
MaxWeatherRows == 3
MaxViewRows == 2
MaxRuns == 2

----------------------------------------------------------------------------
(* Calendar: what pd.to_datetime, .dt.to_period('M') and the 'W' offset do *)

\* floor division (the divisor is positive)
FloorDiv(a, b) == IF a >= 0 THEN a \div b ELSE -((-a + b - 1) \div b)

\* pd.to_datetime of a civil date: days since 1970-01-01
to_datetime(c) ==
    LET y   == IF c[2] <= 2 THEN c[1] - 1 ELSE c[1]
        era == FloorDiv(y, 400)
        yoe == y - era * 400
        mp  == (c[2] + 9) % 12
        doy == (153 * mp + 2) \div 5 + c[3] - 1
        doe == yoe * 365 + yoe \div 4 - yoe \div 100 + doy
    IN  era * 146097 + doe - 719468

\* Timestamp -> civil date <<y, m, d>>
to_civil(t) ==
    LET z   == t + 719468
        era == FloorDiv(z, 146097)
        doe == z - era * 146097
        yoe == (doe - doe \div 1460 + doe \div 36524 - doe \div 146096) \div 365
        doy == doe - (365 * yoe + yoe \div 4 - yoe \div 100)
        mp  == (5 * doy + 2) \div 153
        d   == doy - (153 * mp + 2) \div 5 + 1
        m   == IF mp < 10 THEN mp + 3 ELSE mp - 9
        y   == yoe + era * 400 + (IF m <= 2 THEN 1 ELSE 0)
    IN  <<y, m, d>>

\* variant: .dt.month, the month number without the year
month_number(t) == to_civil(t)[2] - 1

\* Timestamp.dt.to_period('M'): a monthly Period, held as pandas holds it, as
\* the number of months since 1970-01
to_period_M(t) == (to_civil(t)[1] - 1970) * 12 + (to_civil(t)[2] - 1)

\* Timestamp.weekday(): Monday = 0 ... Sunday = 6 (1970-01-01 was a Thursday)
weekday(t) == (t + 3) % 7

\* variant: the 'W-SAT' bin, weeks that run Sunday..Saturday
week_label_sat(t) == t + ((5 - weekday(t)) % 7)

\* the 'W' (= 'W-SUN') bin of a timestamp, named by its right edge: the first
\* Sunday on or after t (bins are closed and labelled on the right)
week_label(t) == t + (6 - weekday(t))

----------------------------------------------------------------------------
(* Sequences *)

RECURSIVE SeqSum(_)
SeqSum(s) == IF s = <<>> THEN 0 ELSE Head(s) + SeqSum(Tail(s))

\* the elements of a finite set of integers, ascending
RECURSIVE SortedSeq(_)
SortedSeq(S) ==
    IF S = {} THEN <<>>
    ELSE LET lo == CHOOSE x \in S : \A y \in S : x <= y
         IN  <<lo>> \o SortedSeq(S \ {lo})

Range(s) == {s[i] : i \in DOMAIN s}

SeqsUpTo(S, n) == UNION {[1..k -> S] : k \in 0..n}

----------------------------------------------------------------------------
(* DataFrames: [index_col, index, cols, data]; a row is a function of cols *)

\* frame[col] as a Series of values
Column(f, c) == [i \in DOMAIN f.data |-> f.data[i][c]]

\* pd.read_csv of a file [header, rows]: a RangeIndex, every column as read
read_csv(file) ==
    [index_col |-> "RangeIndex",
     index     |-> [i \in DOMAIN file.rows |-> i - 1],
     cols      |-> file.header,
     data      |-> file.rows]

\* frame[col] = values (a new or a replaced column), in place
setitem(f, c, values) ==
    [f EXCEPT !.cols = @ \cup {c},
              !.data = [i \in DOMAIN f.data |->
                          [k \in DOMAIN f.data[i] \cup {c} |->
                              IF k = c THEN values[i] ELSE f.data[i][k]]]]


\* frame[mask]: a NEW frame holding the rows whose mask entry is true, with
\* the index labels they had
getitem_mask(f, mask) ==
    LET p == SelectSeq([i \in DOMAIN f.data |-> i], LAMBDA i : mask[i])
    IN  [index_col |-> f.index_col,
         index     |-> [k \in DOMAIN p |-> f.index[p[k]]],
         cols      |-> f.cols,
         data      |-> [k \in DOMAIN p |-> f.data[p[k]]]]

\* variant: set_index without inplace=True leaves the frame as it was
set_index_not_inplace(f, c) == f

\* frame.set_index(col, inplace=True): the column becomes the index and is
\* no longer a column
set_index(f, c) ==
    [index_col |-> c,
     index     |-> Column(f, c),
     cols      |-> f.cols \ {c},
     data      |-> [i \in DOMAIN f.data |->
                      [k \in DOMAIN f.data[i] \ {c} |-> f.data[i][k]]]]

\* Series.sum() of a column
col_sum(f, c) == SeqSum(Column(f, c))

\* sum and count of column val over the rows whose column by equals key
sum_where(f, by, key, val) ==
    SeqSum(Column(getitem_mask(f, [i \in DOMAIN f.data |-> f.data[i][by] = key]), val))

count_where(f, by, key) ==
    Len(SelectSeq(f.data, LAMBDA r : r[by] = key))

\* frame.groupby(by)[val].sum().reset_index(): one row per key that occurs,
\* keys ascending
groupby_sum(f, by, val) ==
    LET keys == SortedSeq(Range(Column(f, by)))
    IN  [k \in DOMAIN keys |->
            (by :> keys[k]) @@ (val :> sum_where(f, by, keys[k], val))]

\* frame.groupby(by)[val].mean().reset_index()
groupby_mean(f, by, val) ==
    LET keys == SortedSeq(Range(Column(f, by)))
    IN  [k \in DOMAIN keys |->
            (by :> keys[k]) @@
            (val :> [num |-> sum_where(f, by, keys[k], val),
                     den |-> count_where(f, by, keys[k])])]

\* frame[val].resample('W').sum().reset_index() of a frame indexed by
\* timestamps: one row per weekly bin from the bin of the first date to the
\* bin of the last, labelled by the bin's Sunday; a bin without rows sums to 0
resample_W_sum(f, val) ==
    IF f.index = <<>> THEN <<>>
    ELSE LET labels == {week_label(f.index[i]) : i \in DOMAIN f.index}
             first  == CHOOSE x \in labels : \A y \in labels : x <= y
             last   == CHOOSE x \in labels : \A y \in labels : x >= y
             nbins  == (last - first) \div 7 + 1
         IN  [k \in 1..nbins |->
                 LET label == first + 7 * (k - 1)
                 IN  (f.index_col :> label) @@
                     (val :> SeqSum(Column(
                         getitem_mask(f, [i \in DOMAIN f.data |->
                                             week_label(f.index[i]) = label]),
                         val)))]

\* variant: the percentages rounded to whole numbers
value_counts_pct_rounded(f, c) ==
    [v \in Range(Column(f, c)) |->
        [num |-> (100 * count_where(f, c, v)) \div Len(f.data), den |-> 1]]

\* frame[col].value_counts(normalize=True) * 100: for each value that occurs,
\* its share of the rows, times 100 (not rounded)
value_counts_pct(f, c) ==
    [v \in Range(Column(f, c)) |->
        [num |-> 100 * count_where(f, c, v), den |-> Len(f.data)]]

\* frame[cols].corr(): Pearson's r of every pair of the columns, over all
\* rows.  r = cov / sqrt(va * vb) is held as the exact triple (each scaled
\* by n * n); it is NaN when va * vb = 0
corr(f, cs) ==
    LET n      == Len(f.data)
        S(a)   == SeqSum(Column(f, a))
        P(a, b) == SeqSum([i \in DOMAIN f.data |-> f.data[i][a] * f.data[i][b]])
    IN  [a \in cs, b \in cs |->
            [cov |-> n * P(a, b) - S(a) * S(b),
             va  |-> n * P(a, a) - S(a) * S(a),
             vb  |-> n * P(b, b) - S(b) * S(b)]]

----------------------------------------------------------------------------
(* Hour binning, lines 187-191 *)

hour_bins == <<0, 6, 12, 18, 24>>
hour_labels == <<"Night", "Morning", "Afternoon", "Evening">>

\* variant: right=False, bin i is [bins[i], bins[i+1])
cut_left_closed(x, bins, labels) ==
    IF \E i \in DOMAIN labels : bins[i] <= x /\ x < bins[i + 1]
    THEN labels[CHOOSE i \in DOMAIN labels : bins[i] <= x /\ x < bins[i + 1]]
    ELSE "NaN"

\* variant: include_lowest left out, the lowest edge is in no bin
cut_without_lowest(x, bins, labels) ==
    IF \E i \in DOMAIN labels : bins[i] < x /\ x <= bins[i + 1]
    THEN labels[CHOOSE i \in DOMAIN labels : bins[i] < x /\ x <= bins[i + 1]]
    ELSE "NaN"

\* pd.cut(x, bins, labels, include_lowest=True), with the default right=True:
\* bin i is (bins[i], bins[i+1]], and the lowest edge belongs to the first
\* bin; a value in no bin is NaN
cut(x, bins, labels) ==
    IF x = bins[1] THEN labels[1]
    ELSE IF \E i \in DOMAIN labels : bins[i] < x /\ x <= bins[i + 1]
         THEN labels[CHOOSE i \in DOMAIN labels : bins[i] < x /\ x <= bins[i + 1]]
         ELSE "NaN"

\* frame.groupby(by)[vals].mean().reset_index() for a categorical column:
\* groups in category order, rows whose category is NaN in no group.  With
\* observed=False a category without rows has a row of NaN means; with
\* observed=True it has no row (the default differs between pandas versions)
groupby_categorical_mean(f, by, labels, vals, observed) ==
    LET kept == SelectSeq(labels, LAMBDA l : ~observed \/ count_where(f, by, l) > 0)
    IN  [k \in DOMAIN kept |->
            [c \in {by} \cup vals |->
                IF c = by THEN kept[k]
                ELSE [num |-> sum_where(f, by, kept[k], c),
                      den |-> count_where(f, by, kept[k])]]]

----------------------------------------------------------------------------
(* The script *)

Sections == {"Introduction & General Statistics", "Weather Impact on Rentals",
             "Rental Patterns", "Rentals per Hour Categories"}

Overview == "Introduction & General Statistics"

\* dates the user picks in the two date widgets; the first and the last are
\* the widgets' defaults (lines 32-33)
PickDates == {<<2011, 1, 1>>, <<2011, 1, 31>>, <<2012, 12, 31>>}

\* bind object id to a frame in the heap
Put(h, id, f) == (id :> f) @@ h

\* lines 14-19: read both files, then parse the date column of each
LoadFrame(file) ==
    LET f == read_csv(file)
    IN  setitem(f, "dteday", [i \in DOMAIN f.data |-> to_datetime(f.data[i]["dteday"])])

Load ==
    /\ pc = "start"
    /\ heap' = Put(Put(heap, "hours", LoadFrame(hours_file)), "days", LoadFrame(days_file))
    /\ hours_data' = "hours"
    /\ days_data' = "days"
    /\ loads' = loads + 1
    /\ pc' = "loaded"
    /\ UNCHANGED <<days_file, hours_file, filtered_days_data, filtered_hours_data,
                   section, start_date, end_date, time_frame, results, raised, runs>>

\* variant: the end date excluded
date_mask_open_end(f, start, end) ==
    [i \in DOMAIN f.data |->
        /\ f.data[i]["dteday"] >= to_datetime(start)
        /\ f.data[i]["dteday"] < to_datetime(end)]

\* lines 36-37: (frame['dteday'] >= start) & (frame['dteday'] <= end)
date_mask(f, start, end) ==
    [i \in DOMAIN f.data |->
        /\ f.data[i]["dteday"] >= to_datetime(start)
        /\ f.data[i]["dteday"] <= to_datetime(end)]

\* variant: a mask that keeps every row yields the frame itself, not a copy
boolean_index_view(h, src, dst, mask) ==
    IF \A i \in DOMAIN mask : mask[i]
    THEN [heap |-> Put(h, dst, h[src]), ref |-> src]
    ELSE [heap |-> Put(h, dst, getitem_mask(h[src], mask)), ref |-> dst]

\* lines 36-37: name = frame[mask] binds the name to a new object dst
boolean_index(h, src, dst, mask) ==
    [heap |-> Put(h, dst, getitem_mask(h[src], mask)), ref |-> dst]

\* lines 23-37: the first section is selected; the two dates are read and
\* both tables are filtered
SidebarOverview ==
    /\ pc = "loaded"
    /\ \E s \in PickDates, e \in PickDates :
        LET d  == boolean_index(heap, days_data, "fdays",
                                date_mask(heap[days_data], s, e))
            hh == boolean_index(d.heap, hours_data, "fhours",
                                date_mask(d.heap[hours_data], s, e))
        IN  /\ start_date' = s
            /\ end_date' = e
            /\ heap' = hh.heap
            /\ filtered_days_data' = d.ref
            /\ filtered_hours_data' = hh.ref
    /\ section' = Overview
    /\ pc' = "filtered"
    /\ UNCHANGED <<days_file, hours_file, days_data, hours_data, time_frame,
                   results, raised, runs, loads>>

\* lines 23-30, 38-40: another section is selected; the filtered names are
\* bound to the loaded objects themselves
SidebarOther ==
    /\ pc = "loaded"
    /\ \E s \in Sections \ {Overview} : section' = s
    /\ filtered_days_data' = days_data
    /\ filtered_hours_data' = hours_data
    /\ pc' = "filtered"
    /\ UNCHANGED <<days_file, hours_file, heap, days_data, hours_data, start_date,
                   end_date, time_frame, results, raised, runs, loads>>

\* variant: the registered total taken from the cnt column
total_registered_from_cnt(f) == col_sum(f, "cnt")

\* lines 52-54
total_rentals(f) == col_sum(f, "cnt")
total_casual(f) == col_sum(f, "casual")
total_registered(f) == col_sum(f, "registered")

Totals(f) ==
    [n \in {"total_rentals", "total_casual", "total_registered"} |->
        CASE n = "total_rentals" -> total_rentals(f)
          [] n = "total_casual" -> total_casual(f)
          [] OTHER -> total_registered(f)]

\* lines 99 and 110, the end of the first section
HourAndWeather(fd, fh) ==
    ("average_rentals_by_hour" :> groupby_mean(fh, "hr", "cnt")) @@
    ("weather_breakdown" :> value_counts_pct(fd, "weathersit"))

\* lines 42-82, 97-116: the first section with the Monthly time frame
OverviewMonthly ==
    /\ pc = "filtered"
    /\ section = Overview
    /\ time_frame' = "Monthly"
    /\ LET fd0 == heap[filtered_days_data]
           fd  == setitem(fd0, "month",
                          [i \in DOMAIN fd0.data |-> to_period_M(fd0.data[i]["dteday"])])
       IN  /\ heap' = Put(heap, filtered_days_data, fd)
           /\ results' = Totals(fd0) @@
                         ("rentals_by_month" :> groupby_sum(fd, "month", "cnt")) @@
                         HourAndWeather(fd, heap[filtered_hours_data])
    /\ pc' = "done"
    /\ UNCHANGED <<days_file, hours_file, days_data, hours_data, filtered_days_data,
                   filtered_hours_data, section, start_date, end_date, raised,
                   runs, loads>>

\* lines 42-69, 84-116: the first section with the Weekly time frame.
\* resample raises TypeError unless the index holds timestamps
OverviewWeekly ==
    /\ pc = "filtered"
    /\ section = Overview
    /\ time_frame' = "Weekly"
    /\ LET fd0 == heap[filtered_days_data]
           fd  == set_index(fd0, "dteday")
       IN  /\ heap' = Put(heap, filtered_days_data, fd)
           /\ IF fd.index_col = "dteday"
              THEN /\ results' = Totals(fd0) @@
                                 ("rentals_by_week" :> resample_W_sum(fd, "cnt")) @@
                                 HourAndWeather(fd, heap[filtered_hours_data])
                   /\ raised' = raised
                   /\ pc' = "done"
              ELSE /\ results' = Totals(fd0)
                   /\ raised' = "TypeError"
                   /\ pc' = "raised"
    /\ UNCHANGED <<days_file, hours_file, days_data, hours_data, filtered_days_data,
                   filtered_hours_data, section, start_date, end_date, runs, loads>>

\* line 126: frame[[columns]], a new frame of those columns
getitem_cols(f, cs) ==
    [index_col |-> f.index_col,
     index     |-> f.index,
     cols      |-> cs,
     data      |-> [i \in DOMAIN f.data |-> [k \in cs |-> f.data[i][k]]]]

weather_cols == {"temp", "hum", "windspeed", "weathersit", "cnt"}

\* lines 119-154: the correlation matrix of the weather columns of days_data
WeatherImpact ==
    /\ pc = "filtered"
    /\ section = "Weather Impact on Rentals"
    /\ LET weather_data == getitem_cols(heap[days_data], weather_cols)
       IN  results' = ("corr_matrix" :> corr(weather_data, weather_cols))
    /\ pc' = "done"
    /\ UNCHANGED <<days_file, hours_file, heap, days_data, hours_data,
                   filtered_days_data, filtered_hours_data, section, start_date,
                   end_date, time_frame, raised, runs, loads>>

\* line 165: Series.map({0: 'Weekend', 1: 'Weekday'}); any other value is NaN
map_workingday(v) ==
    IF v = 0 THEN "Weekend" ELSE IF v = 1 THEN "Weekday" ELSE "NaN"

\* lines 164-165
workingday_trend(f) ==
    LET t == groupby_sum(f, "workingday", "cnt")
    IN  [k \in DOMAIN t |-> [t[k] EXCEPT !["workingday"] = map_workingday(@)]]

\* lines 157-177: total rentals of hours_data by the workingday flag
RentalPatterns ==
    /\ pc = "filtered"
    /\ section = "Rental Patterns"
    /\ results' = ("workingday_trend" :> workingday_trend(heap[hours_data]))
    /\ pc' = "done"
    /\ UNCHANGED <<days_file, hours_file, heap, days_data, hours_data,
                   filtered_days_data, filtered_hours_data, section, start_date,
                   end_date, time_frame, raised, runs, loads>>

\* line 189: the hour_binned column
hour_binned(f) ==
    [i \in DOMAIN f.data |-> cut(f.data[i]["hr"], hour_bins, hour_labels)]

\* lines 180-206: hours_data gets the hour_binned column (in place) and the
\* three means are taken by bin
HourCategories ==
    /\ pc = "filtered"
    /\ section = "Rentals per Hour Categories"
    /\ \E observed \in BOOLEAN :
        LET hd == setitem(heap[hours_data], "hour_binned", hour_binned(heap[hours_data]))
        IN  /\ heap' = Put(heap, hours_data, hd)
            /\ results' = ("binned_data" :>
                             groupby_categorical_mean(hd, "hour_binned", hour_labels,
                                 {"cnt", "casual", "registered"}, observed))
    /\ pc' = "done"
    /\ UNCHANGED <<days_file, hours_file, days_data, hours_data, filtered_days_data,
                   filtered_hours_data, section, start_date, end_date, time_frame,
                   raised, runs, loads>>

\* variant: the loaded tables are kept between executions (a cached loader),
\* so the next execution starts after line 19
RerunKeepingTables ==
    /\ pc \in {"done", "raised"}
    /\ runs < MaxRuns
    /\ runs' = runs + 1
    /\ pc' = "loaded"
    /\ heap' = [id \in {"days", "hours"} |-> LoadFrame(IF id = "days" THEN days_file ELSE hours_file)]
    /\ filtered_days_data' = "unbound"
    /\ filtered_hours_data' = "unbound"
    /\ section' = "unbound"
    /\ start_date' = <<>>
    /\ end_date' = <<>>
    /\ time_frame' = "unbound"
    /\ results' = <<>>
    /\ raised' = "none"
    /\ UNCHANGED <<days_file, hours_file, days_data, hours_data, loads>>

\* the next interaction: the host runs the script again from line 1, with
\* none of the names of the run before
Rerun ==
    /\ pc \in {"done", "raised"}
    /\ runs < MaxRuns
    /\ runs' = runs + 1
    /\ pc' = "start"
    /\ heap' = <<>>
    /\ days_data' = "unbound"
    /\ hours_data' = "unbound"
    /\ filtered_days_data' = "unbound"
    /\ filtered_hours_data' = "unbound"
    /\ section' = "unbound"
    /\ start_date' = <<>>
    /\ end_date' = <<>>
    /\ time_frame' = "unbound"
    /\ results' = <<>>
    /\ raised' = "none"
    /\ UNCHANGED <<days_file, hours_file, loads>>

Next ==
    \/ Load
    \/ SidebarOverview
    \/ SidebarOther
    \/ OverviewMonthly
    \/ OverviewWeekly
    \/ WeatherImpact
    \/ RentalPatterns
    \/ HourCategories
    \/ Rerun

----------------------------------------------------------------------------
(* The files.  Columns the script never reads are left out. *)

DayHeader == {"dteday", "temp", "hum", "windspeed", "weathersit",
              "casual", "registered", "cnt"}
HourHeader == {"dteday", "hr", "workingday", "casual", "registered", "cnt"}

DayRow(d, t, w, c) ==
    [dteday |-> d, temp |-> t, hum |-> 1, windspeed |-> 1, weathersit |-> w,
     casual |-> c[1], registered |-> c[2], cnt |-> c[3]]

HourRow(d, h, wd, c) ==
    [dteday |-> d, hr |-> h, workingday |-> wd,
     casual |-> c[1], registered |-> c[2], cnt |-> c[3]]

Files(header, rows, n) == {[header |-> header, rows |-> r] : r \in SeqsUpTo(rows, n)}

InitWith(dayFiles, hourFiles) ==
    /\ days_file \in dayFiles
    /\ hours_file \in hourFiles
    /\ runs = 1
    /\ loads = 0
    /\ pc = "start"
    /\ heap = <<>>
    /\ days_data = "unbound"
    /\ hours_data = "unbound"
    /\ filtered_days_data = "unbound"
    /\ filtered_hours_data = "unbound"
    /\ section = "unbound"
    /\ start_date = <<>>
    /\ end_date = <<>>
    /\ time_frame = "unbound"
    /\ results = <<>>
    /\ raised = "none"

\* a Sunday, the Monday after it, and a Monday a year later
DataDates == {<<2011, 1, 30>>, <<2011, 1, 31>>, <<2012, 1, 30>>}

\* <<casual, registered, cnt>>; the second breaks cnt = casual + registered
Counts == {<<1, 1, 2>>, <<1, 1, 3>>}

\* tables that differ in their dates and counts
Init ==
    InitWith(
        Files(DayHeader, {DayRow(d, 1, 1, c) : d \in DataDates, c \in Counts}, MaxDayRows),
        Files(HourHeader, {HourRow(d, 6, 1, <<1, 1, 2>>) : d \in {<<2011, 1, 31>>, <<2012, 1, 30>>}},
              MaxHourRows))

Spec == Init /\ [][Next]_vars

\* daily tables that differ in their weather categories
InitWeather ==
    InitWith(
        Files(DayHeader,
              {DayRow(d, 1, w, <<1, 1, 2>>) : d \in {<<2011, 1, 30>>, <<2011, 1, 31>>},
                                             w \in {1, 2, 3}},
              MaxWeatherRows),
        Files(HourHeader, {}, 0))

SpecWeather == InitWeather /\ [][Next]_vars

\* hourly tables over every hour of the day
InitBins ==
    InitWith(
        Files(DayHeader, {}, 0),
        Files(HourHeader,
              {HourRow(<<2011, 1, 31>>, h, 1, <<1, 1, 2>>) : h \in 0..23},
              MaxBinRows))

SpecBins == InitBins /\ [][Next]_vars

\* tables for the three other sections: temperatures and counts that
\* correlate or not, hours at and off the lowest bin edge, both day kinds
InitViews ==
    InitWith(
        Files(DayHeader,
              {DayRow(<<2011, 1, 31>>, 1, 1, <<1, 1, 2>>),
               DayRow(<<2011, 1, 31>>, 2, 2, <<1, 2, 3>>),
               DayRow(<<2012, 1, 30>>, 2, 1, <<1, 1, 2>>)},
              MaxViewRows),
        Files(HourHeader,
              {HourRow(<<2011, 1, 31>>, 0, 0, <<1, 1, 2>>),
               HourRow(<<2011, 1, 31>>, 7, 1, <<1, 2, 3>>),
               HourRow(<<2012, 1, 30>>, 7, 0, <<0, 1, 1>>)},
              MaxViewRows))

SpecViews == InitViews /\ [][Next]_vars

----------------------------------------------------------------------------
(* Vocabulary of the properties, stated on the files' civil dates *)

\* a <= b for civil dates
CivilLE(a, b) ==
    \/ a[1] < b[1]
    \/ a[1] = b[1] /\ a[2] < b[2]
    \/ a[1] = b[1] /\ a[2] = b[2] /\ a[3] <= b[3]

\* sum of f[x] over the finite set S
RECURSIVE Sigma(_, _)
Sigma(S, f) ==
    IF S = {} THEN 0
    ELSE LET x == CHOOSE y \in S : TRUE IN f[x] + Sigma(S \ {x}, f)

\* positions of the rows of a file whose date is in [start_date, end_date]
InRange(file) ==
    {i \in DOMAIN file.rows :
        /\ CivilLE(start_date, file.rows[i].dteday)
        /\ CivilLE(file.rows[i].dteday, end_date)}

\* the frame holds exactly the rows of the file at positions S, in the
\* file's order, each under the index label it was loaded with
HoldsRows(f, file, S) ==
    /\ Len(f.data) = Cardinality(S)
    /\ \A k \in DOMAIN f.data :
        /\ f.index[k] + 1 \in S
        /\ \A c \in file.header \ {"dteday"} :
              f.data[k][c] = file.rows[f.index[k] + 1][c]
        /\ to_civil(f.data[k]["dteday"]) = file.rows[f.index[k] + 1].dteday
    /\ \A k, l \in DOMAIN f.data : k < l => f.index[k] < f.index[l]

InOverview == section = Overview /\ pc \in {"filtered", "done", "raised"}

\* C1: right after the filter of the first section, each filtered table
\* holds exactly the rows of its loaded table with start <= date <= end
\* (both ends inclusive), in order; the two tables are filtered independently.
C1_FilterInclusive ==
    (pc = "filtered" /\ section = Overview) =>
        /\ HoldsRows(heap[filtered_days_data], days_file, InRange(days_file))
        /\ HoldsRows(heap[filtered_hours_data], hours_file, InRange(hours_file))

\* a single-day range [d, d] that keeps a row dated d and drops another row
C1_Witness ==
    /\ pc = "filtered" /\ section = Overview
    /\ start_date = end_date
    /\ Len(heap[filtered_days_data].data) = 1
    /\ Len(heap[days_data].data) = 2
    /\ Len(heap[filtered_hours_data].data) = 1

\* C3: with start > end both filtered tables are empty, nothing is raised,
\* the three totals are 0 and every reduction of the section is empty.
C3_ReversedRangeIsEmpty ==
    (InOverview /\ ~CivilLE(start_date, end_date)) =>
        /\ pc # "raised" /\ raised = "none"
        /\ heap[filtered_days_data].data = <<>>
        /\ heap[filtered_hours_data].data = <<>>
        /\ pc = "done" =>
            /\ results["total_rentals"] = 0
            /\ results["total_casual"] = 0
            /\ results["total_registered"] = 0
            /\ time_frame = "Monthly" => results["rentals_by_month"] = <<>>
            /\ time_frame = "Weekly" => results["rentals_by_week"] = <<>>
            /\ results["average_rentals_by_hour"] = <<>>
            /\ DOMAIN results["weather_breakdown"] = {}

\* the Weekly view has run on a reversed range over two nonempty tables
C3_Witness ==
    /\ pc = "done" /\ section = Overview /\ time_frame = "Weekly"
    /\ ~CivilLE(start_date, end_date)
    /\ days_file.rows # <<>> /\ hours_file.rows # <<>>
    /\ "rentals_by_week" \in DOMAIN results

\* the filtered daily rows, as positions in the daily file
FilteredDays == InRange(days_file)

DayCnt == [i \in DOMAIN days_file.rows |-> days_file.rows[i].cnt]

\* year and month of a monthly Period
PeriodYM(p) == <<1970 + (p \div 12), (p % 12) + 1>>

\* C4: the Monthly result has one group per (year, month) that occurs among
\* the filtered daily rows and no other; each row is in exactly one group,
\* a group's value is the sum of cnt over its rows, and the values add up
\* to Total Rentals.
C4_MonthlyPartition ==
    (pc = "done" /\ section = Overview /\ time_frame = "Monthly") =>
        LET g == results["rentals_by_month"]
            rowsOf(k) == {i \in FilteredDays :
                            <<days_file.rows[i].dteday[1], days_file.rows[i].dteday[2]>>
                                = PeriodYM(g[k]["month"])}
        IN  /\ \A i \in FilteredDays : Cardinality({k \in DOMAIN g : i \in rowsOf(k)}) = 1
            /\ \A k \in DOMAIN g :
                /\ rowsOf(k) # {}
                /\ g[k]["cnt"] = Sigma(rowsOf(k), DayCnt)
            /\ Sigma(DOMAIN g, [k \in DOMAIN g |-> g[k]["cnt"]]) = results["total_rentals"]
            /\ results["total_rentals"] = Sigma(FilteredDays, DayCnt)

\* two filtered rows of the same month number in different years: two groups
C4_Witness ==
    /\ pc = "done" /\ section = Overview /\ time_frame = "Monthly"
    /\ Len(results["rentals_by_month"]) = 2
    /\ \E i, j \in FilteredDays :
        /\ days_file.rows[i].dteday[2] = days_file.rows[j].dteday[2]
        /\ days_file.rows[i].dteday[1] # days_file.rows[j].dteday[1]

\* 2011-01-31 was a Monday
IsMonday(t) == (t - to_datetime(<<2011, 1, 31>>)) % 7 = 0

DayStamp == [i \in DOMAIN days_file.rows |-> to_datetime(days_file.rows[i].dteday)]

\* C5: each bucket of the Weekly result is a Monday..Sunday week; the
\* buckets are consecutive weeks from the week of the first filtered date
\* to the week of the last; each filtered row lies in the bucket of its own
\* week, a bucket's value is the sum of cnt over its rows (0 without rows),
\* and the values add up to the sum of cnt of the filtered rows.
C5_WeeklyMondayBuckets ==
    (pc = "done" /\ section = Overview /\ time_frame = "Weekly") =>
        LET g == results["rentals_by_week"]
            monday(k) == g[k]["dteday"] - 6
            rowsOf(k) == {i \in FilteredDays :
                            monday(k) <= DayStamp[i] /\ DayStamp[i] <= monday(k) + 6}
        IN  /\ \A k \in DOMAIN g :
                /\ IsMonday(monday(k))
                /\ g[k]["cnt"] = Sigma(rowsOf(k), DayCnt)
                /\ k > 1 => monday(k) = monday(k - 1) + 7
            /\ \A i \in FilteredDays : \E k \in DOMAIN g : i \in rowsOf(k)
            /\ g # <<>> => rowsOf(1) # {} /\ rowsOf(Len(g)) # {}
            /\ (g = <<>>) = (FilteredDays = {})
            /\ Sigma(DOMAIN g, [k \in DOMAIN g |-> g[k]["cnt"]]) = Sigma(FilteredDays, DayCnt)

\* a Sunday row and the next day's Monday row fall in two adjacent buckets
C5_Witness ==
    /\ pc = "done" /\ section = Overview /\ time_frame = "Weekly"
    /\ Len(results["rentals_by_week"]) = 2
    /\ \E i, j \in FilteredDays :
        /\ DayStamp[j] = DayStamp[i] + 1
        /\ IsMonday(DayStamp[j])
        /\ results["rentals_by_week"][1]["cnt"] = DayCnt[i]
        /\ results["rentals_by_week"][2]["cnt"] = DayCnt[j]

\* a week without rows between two weeks with rows has a bucket of value 0
C5_EmptyWeekReached ==
    /\ pc = "done" /\ section = Overview /\ time_frame = "Weekly"
    /\ Len(results["rentals_by_week"]) > 2
    /\ results["rentals_by_week"][2]["cnt"] = 0

\* the loaded table has the rows, order, index and original column values
\* of the file, and at most the derived columns extra
AsLoaded(f, file, extra) ==
    /\ f.index_col = "RangeIndex"
    /\ file.header \subseteq f.cols
    /\ f.cols \ file.header \subseteq extra
    /\ HoldsRows(f, file, DOMAIN file.rows)
    /\ \A k \in DOMAIN f.data : DOMAIN f.data[k] = f.cols

\* C6: from loading on, through every interaction, each loaded table keeps
\* its rows, order, index and original column values; only a derived column
\* (month, hour_binned) may have been added.
C6_LoadedTablesUnchanged ==
    (pc # "start") =>
        /\ AsLoaded(heap[days_data], days_file, {"month"})
        /\ AsLoaded(heap[hours_data], hours_file, {"hour_binned"})

\* the Weekly view has set the index of a filtered table that kept every row
C6_Witness ==
    /\ pc = "done" /\ section = Overview /\ time_frame = "Weekly"
    /\ Len(heap[days_data].data) = 2
    /\ Len(heap[filtered_days_data].data) = 2
    /\ heap[filtered_days_data].index_col = "dteday"

\* C8 as stated: the loader runs once per process, at startup only.
C8_LoadedOncePerProcess == loads <= 1

\* C8 amended: the loader runs exactly once in every execution of the
\* script, before that execution's filter and aggregates; a later
\* interaction is a new execution, which loads again.
C8_LoadedOncePerRun ==
    /\ loads = (IF pc = "start" THEN runs - 1 ELSE runs)
    /\ pc = "start" =>
        /\ filtered_days_data = "unbound" /\ filtered_hours_data = "unbound"
        /\ DOMAIN results = {} /\ DOMAIN heap = {}
    /\ pc # "start" => {"days", "hours"} \subseteq DOMAIN heap

\* a second interaction has been served
C8_Witness == runs = 2 /\ pc = "done" /\ loads = 2

\* C10: when every loaded daily row has cnt = casual + registered, the
\* three totals are the sums of their columns over the filtered daily rows,
\* and Total = Casual + Registered, for every range.
C10_TotalsAddUp ==
    (pc = "done" /\ section = Overview
        /\ \A i \in DOMAIN days_file.rows :
              days_file.rows[i].cnt = days_file.rows[i].casual + days_file.rows[i].registered) =>
        /\ results["total_rentals"] = Sigma(FilteredDays, DayCnt)
        /\ results["total_casual"] =
              Sigma(FilteredDays, [i \in DOMAIN days_file.rows |-> days_file.rows[i].casual])
        /\ results["total_registered"] =
              Sigma(FilteredDays, [i \in DOMAIN days_file.rows |-> days_file.rows[i].registered])
        /\ results["total_rentals"] = results["total_casual"] + results["total_registered"]

\* totals of a range that keeps one of two consistent rows
C10_Witness ==
    /\ pc = "done" /\ section = Overview
    /\ \A i \in DOMAIN days_file.rows :
          days_file.rows[i].cnt = days_file.rows[i].casual + days_file.rows[i].registered
    /\ Len(days_file.rows) = 2
    /\ Cardinality(FilteredDays) = 1
    /\ results["total_rentals"] = 2

\* sum of the fractions w[c], c in S, as one fraction
RECURSIVE FractionSum(_, _)
FractionSum(S, w) ==
    IF S = {} THEN [num |-> 0, den |-> 1]
    ELSE LET x    == CHOOSE y \in S : TRUE
             rest == FractionSum(S \ {x}, w)
         IN  [num |-> w[x].num * rest.den + rest.num * w[x].den,
              den |-> w[x].den * rest.den]

\* C7: for a nonempty filtered daily table the weather breakdown has one
\* entry per category that occurs, none for a category that does not; an
\* entry is 100 * (rows of the category) / (all rows), not rounded, and the
\* entries add up to 100.
C7_WeatherShares ==
    (pc = "done" /\ section = Overview /\ FilteredDays # {}) =>
        LET w       == results["weather_breakdown"]
            rowsOf(c) == {i \in FilteredDays : days_file.rows[i].weathersit = c}
            total   == FractionSum(DOMAIN w, w)
        IN  /\ DOMAIN w = {days_file.rows[i].weathersit : i \in FilteredDays}
            /\ \A c \in DOMAIN w :
                /\ w[c].den > 0
                /\ w[c].num * Cardinality(FilteredDays)
                      = 100 * Cardinality(rowsOf(c)) * w[c].den
            /\ total.num = 100 * total.den

\* three filtered rows, one of category 2 and two of category 1: the
\* shares are 100/3 and 200/3, and category 3 has no entry
C7_Witness ==
    /\ pc = "done" /\ section = Overview
    /\ Cardinality(FilteredDays) = 3
    /\ DOMAIN results["weather_breakdown"] = {1, 2}
    /\ results["weather_breakdown"][2].num * 3 = 100 * results["weather_breakdown"][2].den

\* the hour of row i of the hourly file and the bin the script gave it
HourOf(i) == hours_file.rows[i].hr
BinOf(i) == heap[hours_data].data[i]["hour_binned"]

Binned == pc = "done" /\ section = "Rentals per Hour Categories"

\* C2 as stated: half-open bins, Night [0,6), Morning [6,12),
\* Afternoon [12,18), Evening [18,24].
C2_HalfOpenBins ==
    Binned =>
        \A i \in DOMAIN hours_file.rows :
            /\ (0 <= HourOf(i) /\ HourOf(i) < 6) => BinOf(i) = "Night"
            /\ (6 <= HourOf(i) /\ HourOf(i) < 12) => BinOf(i) = "Morning"
            /\ (12 <= HourOf(i) /\ HourOf(i) < 18) => BinOf(i) = "Afternoon"
            /\ (18 <= HourOf(i) /\ HourOf(i) <= 24) => BinOf(i) = "Evening"

\* C2 amended: every hour 0..23 gets exactly one bin, by ranges closed on
\* the right: Night 0 <= h <= 6, Morning 6 < h <= 12, Afternoon 12 < h <= 18,
\* Evening 18 < h <= 24.  Hours 6, 12 and 18 are Night, Morning and
\* Afternoon; hour 0 is Night.
C2_RightClosedBins ==
    Binned =>
        \A i \in DOMAIN hours_file.rows :
            /\ BinOf(i) \in {"Night", "Morning", "Afternoon", "Evening"}
            /\ (BinOf(i) = "Night") = (0 <= HourOf(i) /\ HourOf(i) <= 6)
            /\ (BinOf(i) = "Morning") = (6 < HourOf(i) /\ HourOf(i) <= 12)
            /\ (BinOf(i) = "Afternoon") = (12 < HourOf(i) /\ HourOf(i) <= 18)
            /\ (BinOf(i) = "Evening") = (18 < HourOf(i) /\ HourOf(i) <= 24)

\* a row of hour 6 has been binned, as Night
C2_Witness ==
    /\ Binned
    /\ \E i \in DOMAIN hours_file.rows : HourOf(i) = 6 /\ BinOf(i) = "Night"

AllHours == DOMAIN hours_file.rows

HourField(c) == [i \in AllHours |-> hours_file.rows[i][c]]

\* C9: in a section other than the first, every aggregate is taken over all
\* rows of the loaded table, after whatever interactions came before: the
\* correlation matrix over all daily rows; the weekday/weekend sums of cnt
\* over all hourly rows, each row in the group of its flag; the bin means
\* over all hourly rows, each row in the group of its bin.  An execution
\* computes the aggregates of its own section and no others.
C9_OtherViewsUseAllRows ==
    (pc = "done") =>
        /\ section = "Weather Impact on Rentals" =>
            /\ DOMAIN results = {"corr_matrix"}
            /\ results["corr_matrix"] = corr(LoadFrame(days_file), weather_cols)
        /\ section = "Rental Patterns" =>
            /\ DOMAIN results = {"workingday_trend"}
            /\ LET t == results["workingday_trend"]
                   flag(k) == IF t[k]["workingday"] = "Weekend" THEN 0 ELSE 1
                   rowsOf(k) == {i \in AllHours : hours_file.rows[i].workingday = flag(k)}
               IN  /\ \A k \in DOMAIN t :
                        /\ t[k]["workingday"] \in {"Weekend", "Weekday"}
                        /\ t[k]["cnt"] = Sigma(rowsOf(k), HourField("cnt"))
                   /\ \A i \in AllHours : \E k \in DOMAIN t : i \in rowsOf(k)
        /\ section = "Rentals per Hour Categories" =>
            /\ DOMAIN results = {"binned_data"}
            /\ LET b == results["binned_data"]
                   rowsOf(k) == {i \in AllHours : BinOf(i) = b[k]["hour_binned"]}
               IN  /\ \A k \in DOMAIN b : \A c \in {"cnt", "casual", "registered"} :
                        /\ b[k][c].num = Sigma(rowsOf(k), HourField(c))
                        /\ b[k][c].den = Cardinality(rowsOf(k))
                   /\ \A i \in AllHours :
                        Cardinality({k \in DOMAIN b : i \in rowsOf(k)}) = 1
        /\ section = Overview =>
            DOMAIN results = {"total_rentals", "total_casual", "total_registered",
                              "average_rentals_by_hour", "weather_breakdown",
                              IF time_frame = "Monthly" THEN "rentals_by_month"
                                                        ELSE "rentals_by_week"}

\* the bin means of two hourly rows, one at hour 0, in the second
\* interaction served
C9_Witness ==
    /\ pc = "done" /\ section = "Rentals per Hour Categories" /\ runs = 2
    /\ Len(hours_file.rows) = 2
    /\ \E i \in AllHours : HourOf(i) = 0
    /\ \E k \in DOMAIN results["binned_data"] :
          results["binned_data"][k]["cnt"].den = 2

====
